---- MODULE Spec2Model ----
(***************************************************************************)
(* Model of personal_finance_manager.py: Transaction / Income / Expense,   *)
(* UserProfile (the ledger), FinanceManager (the registry and its JSON     *)
(* persistence) and main (the command interface).                          *)
(*                                                                         *)
(* Amounts are Python floats.  A float is modelled as an integer count of  *)
(* 1/Unit currency units whose significand fits MantissaBits bits; every   *)
(* float addition and subtraction rounds its exact result to the nearest   *)
(* such value, ties to even, as IEEE-754 does with 53 bits.                *)
(***************************************************************************)
EXTENDS Integers, Sequences, FiniteSets, TLC

VARIABLES
    transactions,   \* UserProfile.transactions of one stand-alone profile
    profiles,       \* FinanceManager.profiles of the manager in use
    file,           \* the JSON document at the storage path, or no file
    saved,          \* history: the registry as it was at the last save_profiles
    last            \* history: the last operation, its arguments and its outcome

vars == <<transactions, profiles, file, saved, last>>

----------------------------------------------------------------------------
(* Bounds of the model *)

MantissaBits == 3      \* significand width of the modelled float
Unit == 8              \* an amount n stands for n/Unit currency units
MaxTx == 3             \* longest ledger of the stand-alone profile
MaxRegTx == 1          \* most transactions held by the registry (API level)
MaxStoreTx == 2        \* most transactions held by the stored document (CLI)

Users == {"u1", "u2"}

----------------------------------------------------------------------------
(* Floats *)

RECURSIVE Pow2(_)
Pow2(n) == IF n = 0 THEN 1 ELSE 2 * Pow2(n - 1)

Abs(x) == IF x < 0 THEN -x ELSE x

\* The spacing of the floats around magnitude a.
RECURSIVE Quantum(_)
Quantum(a) == IF a < Pow2(MantissaBits) THEN 1 ELSE 2 * Quantum(a \div 2)

\* Round an exact value to the nearest float, ties to the even significand.
RoundFloat(x) ==
    LET a == Abs(x)
        q == Quantum(a)
        r == a % q
        lo == a - r
        up == IF 2 * r > q THEN lo + q
              ELSE IF 2 * r < q THEN lo
              ELSE IF (lo \div q) % 2 = 0 THEN lo ELSE lo + q
    IN IF x < 0 THEN -up ELSE up

float_add(x, y) == RoundFloat(x + y)
float_sub(x, y) == RoundFloat(x - y)

\* The smallest power of two whose successor is not a float.
Big == Pow2(MantissaBits)

\* f"{x:.2f}": the value in hundredths, rounded half to even.
Hundred == 100
Format2f(x) ==
    LET n == Abs(x) * Hundred
        q == n \div Unit
        r == n % Unit
        c == IF 2 * r > Unit THEN q + 1
             ELSE IF 2 * r < Unit THEN q
             ELSE IF q % 2 = 0 THEN q ELSE q + 1
    IN IF x < 0 THEN -c ELSE c

----------------------------------------------------------------------------
(* Transaction, Income, Expense *)

\* A Python object: its class and, for a Transaction, its three attributes.
\* A date string "YYYY-MM-DD" is the triple of its fields.
Income(amount, date, description) ==
    [cls |-> "Income", amount |-> amount, date |-> date, description |-> description]
Expense(amount, date, description) ==
    [cls |-> "Expense", amount |-> amount, date |-> date, description |-> description]
Transaction(amount, date, description) ==
    [cls |-> "Transaction", amount |-> amount, date |-> date, description |-> description]

NotATransaction ==
    [cls |-> "str", amount |-> 0, date |-> <<0, 0, 0>>, description |-> "Not a Transaction"]

isinstance_Transaction(t) == t.cls \in {"Transaction", "Income", "Expense"}
isinstance_Income(t) == t.cls = "Income"

\* Transaction.__str__ : one rendered line
Line(kind, date, text, cents) ==
    [kind |-> kind, date |-> date, text |-> text, cents |-> cents]
NoDate == <<0, 0, 0>>
str(t) == Line("tx", t.date, t.description, Format2f(t.amount))

----------------------------------------------------------------------------
(* datetime.strptime(date, "%Y-%m-%d") *)

IsLeap(y) == (y % 4 = 0 /\ y % 100 # 0) \/ y % 400 = 0
DaysInMonth(y, m) ==
    IF m = 2 THEN (IF IsLeap(y) THEN 29 ELSE 28)
    ELSE IF m \in {4, 6, 9, 11} THEN 30 ELSE 31

\* TRUE when strptime raises ValueError
strptime_fails(d) ==
    ~ (/\ d[1] \in 1..9999
       /\ d[2] \in 1..12
       /\ d[3] \in 1..DaysInMonth(d[1], d[2]))

\* The datetime parsed, as a number ordered like the datetimes.
strptime(d) == (d[1] * 12 + (d[2] - 1)) * 31 + (d[3] - 1)

----------------------------------------------------------------------------
(* UserProfile *)

\* Outcome of a call: the exception raised ("ok" when none), the receiver's
\* state after the call and the value returned.
Outcome(status, state, value) == [status |-> status, state |-> state, value |-> value]
None == "None"

\* Faulty variant: the isinstance check is dropped.
add_transaction_unchecked(txs, t) == Outcome("ok", Append(txs, t), None)

add_transaction(txs, t) ==
    IF ~ isinstance_Transaction(t)
    THEN Outcome("TypeError", txs, None)
    ELSE Outcome("ok", Append(txs, t), None)

\* sum(t.amount for t in txs if keep(t)): left to right from the integer 0
RECURSIVE SumAmounts(_, _, _)
SumAmounts(txs, cls, acc) ==
    IF txs = <<>> THEN acc
    ELSE SumAmounts(Tail(txs), cls,
                    IF Head(txs).cls = cls THEN float_add(acc, Head(txs).amount) ELSE acc)

get_balance(txs) ==
    LET income_total == SumAmounts(txs, "Income", 0)
        expense_total == SumAmounts(txs, "Expense", 0)
    IN float_sub(income_total, expense_total)

\* Faulty variant: an element is placed before the elements of equal key.
RECURSIVE InsertByKeyUnstable(_, _)
InsertByKeyUnstable(sorted, t) ==
    IF sorted = <<>> THEN <<t>>
    ELSE LET n == Len(sorted)
             lastT == sorted[n]
         IN IF strptime(lastT.date) < strptime(t.date)
            THEN Append(sorted, t)
            ELSE Append(InsertByKeyUnstable(SubSeq(sorted, 1, n - 1), t), lastT)

\* list.sort(key=...): stable, ascending by key
RECURSIVE InsertByKey(_, _)
InsertByKey(sorted, t) ==
    IF sorted = <<>> THEN <<t>>
    ELSE LET n == Len(sorted)
             lastT == sorted[n]
         IN IF strptime(lastT.date) <= strptime(t.date)
            THEN Append(sorted, t)
            ELSE Append(InsertByKey(SubSeq(sorted, 1, n - 1), t), lastT)

RECURSIVE SortFrom(_, _)
SortFrom(sorted, rest) ==
    IF rest = <<>> THEN sorted
    ELSE SortFrom(InsertByKey(sorted, Head(rest)), Tail(rest))

sort_by_date(txs) == SortFrom(<<>>, txs)

generate_report(name, txs) ==
    IF \E i \in 1..Len(txs) : strptime_fails(txs[i].date)
    THEN Outcome("ValueError", txs, None)
    ELSE LET sorted == sort_by_date(txs)
             lines == [i \in 1..Len(sorted) |-> str(sorted[i])]
         IN Outcome("ok", sorted,
                    <<Line("Report for", NoDate, name, 0),
                      Line("Transactions:", NoDate, "", 0)>>
                    \o lines
                    \o <<Line("Current Balance", NoDate, "", Format2f(get_balance(sorted)))>>)

----------------------------------------------------------------------------
(* FinanceManager *)

\* The registry: for every name, whether profiles holds it and, when it does,
\* the transactions of its UserProfile.
Absent == [present |-> FALSE, transactions |-> <<>>]
EmptyRegistry == [u \in Users |-> Absent]

\* UserProfile(name): a profile object with no transactions
UserProfile(name) == [cls |-> "UserProfile", name |-> name, transactions |-> <<>>]
NotAProfile == [cls |-> "str", name |-> "u1", transactions |-> <<>>]

add_user(reg, user_profile) ==
    IF user_profile.cls # "UserProfile"
    THEN Outcome("TypeError", reg, None)
    ELSE Outcome("ok",
                 [reg EXCEPT ![user_profile.name] =
                     [present |-> TRUE, transactions |-> user_profile.transactions]],
                 None)

\* Faulty variant: an unknown name is ignored instead of raising KeyError.
remove_user_silent(reg, user_name) ==
    Outcome("ok", [reg EXCEPT ![user_name] = Absent], None)

remove_user(reg, user_name) ==
    IF reg[user_name].present
    THEN Outcome("ok", [reg EXCEPT ![user_name] = Absent], None)
    ELSE Outcome("KeyError", reg, None)

get_user_profile(reg, user_name) ==
    IF reg[user_name].present
    THEN Outcome("ok", reg, reg[user_name].transactions)
    ELSE Outcome("KeyError", reg, None)

\* One element of the "transactions" array of the JSON document
JsonTransaction(t) ==
    [amount |-> t.amount, date |-> t.date, description |-> t.description,
     type |-> IF isinstance_Income(t) THEN "Income" ELSE "Expense"]

NoFile == [exists |-> FALSE, data |-> EmptyRegistry]

\* save_profiles: the document written
save_profiles(reg) ==
    [exists |-> TRUE,
     data |-> [u \in Users |->
        IF reg[u].present
        THEN [present |-> TRUE,
              transactions |-> [i \in 1..Len(reg[u].transactions) |->
                                   JsonTransaction(reg[u].transactions[i])]]
        ELSE Absent]]

\* The object load_profiles builds from one element of the array
FromJson(t_data) ==
    IF t_data.type = "Income"
    THEN Income(t_data.amount, t_data.date, t_data.description)
    ELSE Expense(t_data.amount, t_data.date, t_data.description)

\* load_profiles: every name of the document is given a new profile holding
\* the document's transactions and is put into profiles by add_user; a
\* missing file is passed over.
load_profiles(reg, f) ==
    IF ~ f.exists
    THEN Outcome("ok", reg, None)
    ELSE Outcome("ok",
                 [u \in Users |->
                    IF f.data[u].present
                    THEN [present |-> TRUE,
                          transactions |-> [i \in 1..Len(f.data[u].transactions) |->
                                               FromJson(f.data[u].transactions[i])]]
                    ELSE reg[u]],
                 None)

RECURSIVE SumLen(_, _)
SumLen(reg, S) ==
    IF S = {} THEN 0
    ELSE LET u == CHOOSE x \in S : TRUE
         IN Len(reg[u].transactions) + SumLen(reg, S \ {u})

Size(reg) == SumLen(reg, Users)

----------------------------------------------------------------------------
(* The command interface *)

\* An optional positional argument: <<>> when absent (None), <<v>> when given.
Given(v) == <<v>>
Missing == <<>>

\* Python truthiness of an optional float and of an optional string
TruthyNumber(opt) == opt # Missing /\ opt[1] # 0
TruthyDate(opt) == opt # Missing
TruthyText(opt) == opt # Missing /\ opt[1] # ""

\* Faulty variant: the sign is dropped, every amount is stored as an Income.
make_transaction_income_only(amount, date, description) ==
    Income(amount, date, description)

\* main, lines 268-271: the kind is the sign of the amount
make_transaction(amount, date, description) ==
    IF amount > 0
    THEN Income(amount, date, description)
    ELSE Expense(-amount, date, description)

\* print(text): one printed line
Message(text) == <<Line(text, NoDate, "", 0)>>

\* What one run of main leaves: the stored document, the registry in memory
\* when it ends, the exception that escaped ("ok" when none) and the lines
\* printed.
Run(f, reg, status, printed) ==
    [file |-> f, profiles |-> reg, status |-> status, printed |-> printed]

main(f, args) ==
    LET fm == load_profiles(EmptyRegistry, f).state
    IN CASE args.command = "add" ->
            IF ~ (/\ TruthyNumber(args.amount)
                  /\ TruthyDate(args.date)
                  /\ TruthyText(args.description))
            THEN Run(f, fm, "ok", Message("Error: amount, date, and description are required"))
            ELSE LET profile == IF fm[args.name].present
                                THEN get_user_profile(fm, args.name).value
                                ELSE UserProfile(args.name).transactions
                     transaction == make_transaction(args.amount[1], args.date[1],
                                                     args.description[1])
                     added == add_transaction(profile, transaction).state
                     fm1 == add_user(fm, [cls |-> "UserProfile", name |-> args.name,
                                          transactions |-> added]).state
                 IN Run(save_profiles(fm1), fm1, "ok", Message("Transaction added successfully."))
         [] args.command = "report" ->
            LET g == get_user_profile(fm, args.name)
            IN IF g.status = "KeyError"
               THEN Run(f, fm, "ok", Message("Error: User profile not found."))
               ELSE LET r == generate_report(args.name, g.value)
                    IN Run(f, [fm EXCEPT ![args.name].transactions = r.state],
                           r.status, IF r.status = "ok" THEN r.value ELSE <<>>)
         [] args.command = "balance" ->
            LET g == get_user_profile(fm, args.name)
            IN IF g.status = "KeyError"
               THEN Run(f, fm, "ok", Message("Error: User profile not found."))
               ELSE Run(f, fm, "ok",
                        <<Line("Current Balance for", NoDate, args.name,
                               Format2f(get_balance(g.value)))>>)
         [] args.command = "remove_user" ->
            LET r == remove_user(fm, args.name)
            IN IF r.status = "KeyError"
               THEN Run(f, fm, "ok", Message("Error: User profile not found."))
               ELSE Run(save_profiles(r.state), r.state, "ok",
                        Message("User profile removed successfully."))

----------------------------------------------------------------------------
(* Inputs *)

D0 == <<2023, 12, 31>>     \* "2023-12-31"
D1 == <<2024, 8, 1>>       \* "2024-08-01"
DBad == <<2024, 2, 30>>    \* "2024-02-30": strptime raises ValueError

Dates == {D0, D1, DBad}

\* Objects handed to UserProfile.add_transaction
LedgerInputs ==
    {[cls |-> c, amount |-> 1, date |-> d, description |-> "x"] :
        c \in {"Transaction", "Income", "Expense"}, d \in Dates}
    \cup {Income(Big, D1, "Salary"), NotATransaction}

Call(op, arg, status, value) ==
    [op |-> op, arg |-> arg, status |-> status, value |-> value]

Init ==
    /\ transactions = <<>>
    /\ profiles = EmptyRegistry
    /\ file = NoFile
    /\ saved = EmptyRegistry
    /\ last = Call("init", None, "ok", None)

----------------------------------------------------------------------------
(* The stand-alone UserProfile *)

ProfileNew ==
    /\ transactions' = <<>>
    /\ last' = Call("UserProfile", None, "ok", None)
    /\ UNCHANGED <<profiles, file, saved>>

ProfileAddTransaction(t) ==
    /\ Len(transactions) < MaxTx
    /\ LET r == add_transaction(transactions, t)
       IN /\ transactions' = r.state
          /\ last' = Call("add_transaction", t, r.status, r.value)
    /\ UNCHANGED <<profiles, file, saved>>

ProfileGetBalance ==
    /\ last' = Call("get_balance", None, "ok", get_balance(transactions))
    /\ UNCHANGED <<transactions, profiles, file, saved>>

ProfileGenerateReport ==
    /\ LET r == generate_report("p", transactions)
       IN /\ transactions' = r.state
          /\ last' = Call("generate_report", None, r.status, r.value)
    /\ UNCHANGED <<profiles, file, saved>>

NextLedger ==
    \/ ProfileNew
    \/ \E t \in LedgerInputs : ProfileAddTransaction(t)
    \/ ProfileGetBalance
    \/ ProfileGenerateReport

SpecLedger == Init /\ [][NextLedger]_vars

----------------------------------------------------------------------------
(* The FinanceManager and the profiles it holds *)

\* Objects handed to add_transaction of a profile held by the manager
RegistryInputs ==
    {Income(1, D1, "x"), Expense(1, D0, "x"), Transaction(1, D1, "x"), NotATransaction}

\* fm = FinanceManager()
ManagerNew ==
    /\ profiles' = EmptyRegistry
    /\ last' = Call("FinanceManager", None, "ok", None)
    /\ UNCHANGED <<transactions, file, saved>>

ManagerAddUser(user_profile) ==
    /\ LET r == add_user(profiles, user_profile)
       IN /\ profiles' = r.state
          /\ last' = Call("add_user", user_profile.name, r.status, r.value)
    /\ UNCHANGED <<transactions, file, saved>>

ManagerRemoveUser(name) ==
    /\ LET r == remove_user(profiles, name)
       IN /\ profiles' = r.state
          /\ last' = Call("remove_user", name, r.status, r.value)
    /\ UNCHANGED <<transactions, file, saved>>

ManagerGetUserProfile(name) ==
    /\ LET r == get_user_profile(profiles, name)
       IN last' = Call("get_user_profile", name, r.status, r.value)
    /\ UNCHANGED <<transactions, profiles, file, saved>>

\* fm.get_user_profile(name).add_transaction(t)
ManagerAddTransaction(name, t) ==
    /\ Size(profiles) < MaxRegTx
    /\ LET g == get_user_profile(profiles, name)
       IN IF g.status # "ok"
          THEN /\ last' = Call("user.add_transaction", name, g.status, None)
               /\ UNCHANGED profiles
          ELSE LET r == add_transaction(g.value, t)
               IN /\ profiles' = [profiles EXCEPT ![name].transactions = r.state]
                  /\ last' = Call("user.add_transaction", name, r.status, r.value)
    /\ UNCHANGED <<transactions, file, saved>>

\* fm.get_user_profile(name).get_balance()
ManagerBalance(name) ==
    /\ LET g == get_user_profile(profiles, name)
       IN IF g.status # "ok"
          THEN last' = Call("user.get_balance", name, g.status, None)
          ELSE last' = Call("user.get_balance", name, "ok", get_balance(g.value))
    /\ UNCHANGED <<transactions, profiles, file, saved>>

\* fm.get_user_profile(name).generate_report()
ManagerReport(name) ==
    /\ LET g == get_user_profile(profiles, name)
       IN IF g.status # "ok"
          THEN /\ last' = Call("user.generate_report", name, g.status, None)
               /\ UNCHANGED profiles
          ELSE LET r == generate_report(name, g.value)
               IN /\ profiles' = [profiles EXCEPT ![name].transactions = r.state]
                  /\ last' = Call("user.generate_report", name, r.status, r.value)
    /\ UNCHANGED <<transactions, file, saved>>

ManagerSave ==
    /\ file' = save_profiles(profiles)
    /\ saved' = profiles
    /\ last' = Call("save_profiles", None, "ok", None)
    /\ UNCHANGED <<transactions, profiles>>

ManagerLoad ==
    /\ LET r == load_profiles(profiles, file)
       IN /\ profiles' = r.state
          /\ last' = Call("load_profiles", None, r.status, r.value)
    /\ UNCHANGED <<transactions, file, saved>>

NextRegistry ==
    \/ ManagerNew
    \/ \E u \in Users : ManagerAddUser(UserProfile(u))
    \/ ManagerAddUser(NotAProfile)
    \/ \E u \in Users : ManagerRemoveUser(u)
    \/ \E u \in Users : ManagerGetUserProfile(u)
    \/ \E u \in Users, t \in RegistryInputs : ManagerAddTransaction(u, t)
    \/ \E u \in Users : ManagerBalance(u)
    \/ \E u \in Users : ManagerReport(u)
    \/ ManagerSave
    \/ ManagerLoad

SpecRegistry == Init /\ [][NextRegistry]_vars

----------------------------------------------------------------------------
(* Runs of the command interface, one process each *)

Args(command, name, amount, date, description) ==
    [command |-> command, name |-> name, amount |-> amount, date |-> date,
     description |-> description]

\* Argument lists of the add command
AddArgs ==
    {Args("add", u, Given(a), Given(d), Given("x")) :
        u \in Users, a \in {0, 1, Big, -1}, d \in Dates}
    \cup {Args("add", u, Missing, Missing, Missing) : u \in Users}
    \cup {Args("add", u, Given(1), Missing, Missing) : u \in Users}
    \cup {Args("add", u, Given(1), Given(D1), Missing) : u \in Users}
    \cup {Args("add", u, Given(1), Given(D1), Given("")) : u \in Users}

QueryArgs ==
    {Args(c, u, Missing, Missing, Missing) :
        c \in {"report", "balance", "remove_user"}, u \in Users}

Main(args) ==
    /\ LET r == main(file, args)
       IN /\ Size(r.profiles) <= MaxStoreTx
          /\ file' = r.file
          /\ profiles' = r.profiles
          /\ last' = Call(args.command, args, r.status, r.printed)
    /\ UNCHANGED <<transactions, saved>>

NextCLI ==
    \/ \E args \in AddArgs : Main(args)
    \/ \E args \in QueryArgs : Main(args)

SpecCLI == Init /\ [][NextCLI]_vars

----------------------------------------------------------------------------
(* Properties of the ledger *)

WellFormed(txs) == \A i \in 1..Len(txs) : ~ strptime_fails(txs[i].date)

\* Calendar order of two well-formed dates, field by field.
DateLE(a, b) ==
    \/ a[1] < b[1]
    \/ a[1] = b[1] /\ a[2] < b[2]
    \/ a[1] = b[1] /\ a[2] = b[2] /\ a[3] <= b[3]

Perms(n) == {p \in [1..n -> 1..n] : \A i, j \in 1..n : p[i] = p[j] => i = j}

\* C3: for a ledger whose dates are all well-formed, generate_report succeeds,
\* its transaction lines are the ledger's transactions, each exactly once, in
\* non-decreasing date order, and transactions of equal date keep the relative
\* order they had before the call (the ledger itself is left in that order).
C3_ReportSorted ==
    [][(last'.op = "generate_report" /\ WellFormed(transactions)) =>
        LET n == Len(transactions)
            text == last'.value
        IN /\ last'.status = "ok"
           /\ Len(text) = n + 3
           /\ \E p \in Perms(n) :
                /\ \A i \in 1..n : /\ text[i + 2] = str(transactions[p[i]])
                                   /\ transactions'[i] = transactions[p[i]]
                /\ \A i, j \in 1..n : i < j =>
                     /\ DateLE(transactions[p[i]].date, transactions[p[j]].date)
                     /\ transactions[p[i]].date = transactions[p[j]].date => p[i] < p[j]
    ]_vars

\* A report was produced for a ledger of three transactions, two of them
\* different transactions of one date.
C3_Witness ==
    /\ last.op = "generate_report"
    /\ last.status = "ok"
    /\ Len(transactions) = 3
    /\ transactions[1].date # transactions[3].date
    /\ transactions[2].date = transactions[3].date
    /\ transactions[2] # transactions[3]

\* C10: add_transaction(t) appends t as the last element when t is a
\* Transaction; otherwise it raises TypeError and the ledger is unchanged.
C10_AddTransaction ==
    [][last'.op = "add_transaction" =>
        IF last'.arg.cls \in {"Transaction", "Income", "Expense"}
        THEN /\ last'.status = "ok"
             /\ transactions' = transactions \o <<last'.arg>>
        ELSE /\ last'.status = "TypeError"
             /\ transactions' = transactions
    ]_vars

\* A non-Transaction was rejected by a ledger that already holds an appended
\* transaction.
C10_Witness ==
    /\ last.op = "add_transaction"
    /\ last.status = "TypeError"
    /\ Len(transactions) = 2
    /\ transactions[2].cls = "Transaction"

----------------------------------------------------------------------------
(* Properties of the registry *)

Names(reg) == {u \in Users : reg[u].present}

\* Two registries hold the same names and give, for every name, the same
\* balance and the same report (or the same failure of the report).
SameUsersBalancesReports(a, b) ==
    /\ Names(a) = Names(b)
    /\ \A u \in Names(a) :
         /\ get_balance(a[u].transactions) = get_balance(b[u].transactions)
         /\ generate_report(u, a[u].transactions).status
              = generate_report(u, b[u].transactions).status
         /\ generate_report(u, a[u].transactions).value
              = generate_report(u, b[u].transactions).value

\* C2: save followed by load into a fresh, empty registry yields the same
\* user names and, for every user, the same balance and the same report text
\* as the registry that was saved.
C2_RoundTrip ==
    [][(last'.op = "load_profiles" /\ profiles = EmptyRegistry /\ file.exists) =>
        SameUsersBalancesReports(saved, profiles')
    ]_vars

\* C4: remove_user of a name the registry does not hold raises KeyError and
\* leaves the registry unchanged; of a name it holds, it removes that entry
\* and no other; while a name is not held, get_user_profile and the report and
\* balance reached through it raise KeyError, and only add_user (directly or
\* from load_profiles) brings the name back.
C4_RemoveUser ==
    [][/\ last'.op = "remove_user" =>
            IF profiles[last'.arg].present
            THEN /\ last'.status = "ok"
                 /\ ~ profiles'[last'.arg].present
                 /\ \A u \in Users \ {last'.arg} : profiles'[u] = profiles[u]
            ELSE /\ last'.status = "KeyError"
                 /\ profiles' = profiles
       /\ (/\ last'.op \in {"get_user_profile", "user.get_balance", "user.generate_report"}
           /\ ~ profiles[last'.arg].present) =>
            /\ last'.status = "KeyError"
            /\ profiles' = profiles
       /\ \A u \in Users : (~ profiles[u].present /\ profiles'[u].present) =>
            last'.op \in {"add_user", "load_profiles"}
    ]_vars

\* A name was removed while the other name stays in the registry with its
\* transaction.
C4_Witness ==
    /\ last.op = "remove_user"
    /\ last.status = "ok"
    /\ \E u \in Users \ {last.arg} :
         profiles[u].present /\ Len(profiles[u].transactions) = 1

\* C5: after load_profiles of an existing document the registry holds exactly
\* the users and the transactions of the document.
C5_LoadReplaces ==
    [][(last'.op = "load_profiles" /\ file.exists) =>
        \A u \in Users :
          /\ profiles'[u].present = file.data[u].present
          /\ Len(profiles'[u].transactions) = Len(file.data[u].transactions)
          /\ \A i \in 1..Len(profiles'[u].transactions) :
               LET t == profiles'[u].transactions[i]
                   d == file.data[u].transactions[i]
               IN /\ t.cls = d.type
                  /\ t.amount = d.amount
                  /\ t.date = d.date
                  /\ t.description = d.description
    ]_vars

\* C6: load_profiles with no file at the path raises nothing and yields an
\* empty registry.
C6_MissingFile ==
    [][(last'.op = "load_profiles" /\ ~ file.exists) =>
        /\ last'.status = "ok"
        /\ profiles' = EmptyRegistry
    ]_vars

----------------------------------------------------------------------------
(* Properties of the command interface *)

Commands == {"add", "report", "balance", "remove_user"}

\* Exact sum, in the integers, of the amounts of one class.
RECURSIVE ExactSum(_, _)
ExactSum(txs, cls) ==
    IF txs = <<>> THEN 0
    ELSE (IF Head(txs).cls = cls THEN Head(txs).amount ELSE 0) + ExactSum(Tail(txs), cls)

\* C1: after any sequence of add commands the balance of a user is exactly the
\* sum of the user's Income amounts minus the sum of the user's Expense amounts.
C1_BalanceExact ==
    (last.op = "balance" /\ profiles[last.arg.name].present) =>
        LET txs == profiles[last.arg.name].transactions
        IN /\ get_balance(txs) = ExactSum(txs, "Income") - ExactSum(txs, "Expense")
           /\ last.value[1].cents
                = Format2f(ExactSum(txs, "Income") - ExactSum(txs, "Expense"))

\* C7: a run that changed the registry in memory leaves a stored document that
\* is the serialization of that registry; a run that fails leaves the stored
\* document as it was.
C7_MutationsPersisted ==
    [][last'.op \in Commands =>
        LET loaded == load_profiles(EmptyRegistry, file).state
        IN /\ profiles' # loaded => file' = save_profiles(profiles')
           /\ (last'.status # "ok" \/ last'.value \in
                 {Message("Error: User profile not found."),
                  Message("Error: amount, date, and description are required")})
                => file' = file
    ]_vars

\* C8: every run of a command ends normally, having printed a message; no
\* exception escapes main.
C8_NoEscape ==
    last.op \in Commands => (last.status = "ok" /\ last.value # <<>>)

====
